---- MODULE Spec2Model ----
(***************************************************************************)
(* Model of the xDLMS APDU codecs of dlms-cosem:                           *)
(*   protocol/xdlms/general_block_transfer.py  (GeneralBlockTransfer)      *)
(*   protocol/xdlms/set.py                     (Set-Request / Set-Response)*)
(*                                                                         *)
(* A byte string is a sequence of numbers in 0..255.  A call either        *)
(* returns a value or raises; an outcome records which, and for a raise    *)
(* the Python exception class (exc) and the raise site (why).              *)
(***************************************************************************)
EXTENDS Integers, Sequences, FiniteSets, TLC

VARIABLES op, arg, out, orig

vars == <<op, arg, out, orig>>

(***************************************************************************)
(* Bounds of the explored inputs.                                          *)
(***************************************************************************)
\* longest payload / tail whose bytes are enumerated one by one
MaxShortLen == 2

(***************************************************************************)
(* Outcomes.                                                               *)
(***************************************************************************)
Ok(v) == [kind |-> "ok", val |-> v]

Err(e, w) == [kind |-> "error", exc |-> e, why |-> w]

IsOk(o) == o.kind = "ok"

IsErr(o) == o.kind = "error"

Raises(o, e, w) == o.kind = "error" /\ o.exc = e /\ o.why = w

\* bytearray.pop(0) on an empty bytearray
PopEmpty == Err("IndexError", "pop from empty bytearray")

(***************************************************************************)
(* Python built-ins used by the codecs.                                    *)
(***************************************************************************)
Min(a, b) == IF a < b THEN a ELSE b

\* data[:n]
Take(s, n) == SubSeq(s, 1, Min(n, Len(s)))

\* data[n:]
Drop(s, n) == SubSeq(s, Min(n, Len(s)) + 1, Len(s))

\* int(True) = 1, int(False) = 0
BoolInt(b) == IF b THEN 1 ELSE 0

\* bool(n)
Truthy(n) == n # 0

RECURSIVE BitOr(_, _)
\* a | b on non-negative integers
BitOr(a, b) ==
  IF a = 0 THEN b
  ELSE IF b = 0 THEN a
  ELSE (IF (a % 2) + (b % 2) > 0 THEN 1 ELSE 0) + 2 * BitOr(a \div 2, b \div 2)

\* a & m for a mask m = 2^k (the result is 0 or m)
BitTest(a, m) == ((a \div m) % 2) * m

RECURSIVE int_from_bytes(_)
\* int.from_bytes(s, "big"); the empty string gives 0
int_from_bytes(s) ==
  IF Len(s) = 0 THEN 0
  ELSE 256 * int_from_bytes(SubSeq(s, 1, Len(s) - 1)) + s[Len(s)]

RECURSIVE Pow256(_)
Pow256(k) == IF k = 0 THEN 1 ELSE 256 * Pow256(k - 1)

\* n.to_bytes(k, "big") raises OverflowError unless 0 <= n < 256^k  (k <= 3 here)
FitsBytes(n, k) == n >= 0 /\ n < Pow256(k)

RECURSIVE int_to_bytes(_, _)
\* n.to_bytes(k, "big") for a value that fits
int_to_bytes(n, k) ==
  IF k = 0 THEN <<>>
  ELSE Append(int_to_bytes(n \div 256, k - 1), n % 256)

\* bytes of one repeated value
Fill(n, b) == [i \in 1..n |-> b]

\* every prefix of a buffer: the buffer cut short at each position
Prefixes(b) == {SubSeq(b, 1, n) : n \in 0..Len(b)}

(***************************************************************************)
(* GeneralBlockTransfer                                                     *)
(***************************************************************************)
GBT_TAG == 224

GeneralBlockTransfer(lb, st, w, bn, ba, bd) ==
  [cls |-> "GeneralBlockTransfer",
   last_block |-> lb, streaming |-> st, window |-> w,
   block_number |-> bn, block_ack |-> ba, block_data |-> bd]

\* the mask one bit short: block_control & 0b00011111
GBT_window_mask5(block_control) == block_control % 32

\* window = block_control & 0b00111111
GBT_window(block_control) == block_control % 64

GeneralBlockTransfer_from_bytes(source_bytes) ==
  IF Len(source_bytes) = 0 THEN PopEmpty
  ELSE
  LET tag   == Head(source_bytes)
      data1 == Tail(source_bytes)
  IN
  IF tag # GBT_TAG THEN Err("ValueError", "Tag is not correct")
  ELSE IF Len(data1) = 0 THEN PopEmpty
  ELSE
  LET block_control == Head(data1)
      data2         == Tail(data1)
      last_block    == Truthy(BitTest(block_control, 128))
      streaming     == Truthy(BitTest(block_control, 64))
      window        == GBT_window(block_control)
      block_number  == int_from_bytes(Take(data2, 2))
      data3         == Drop(data2, 2)
      block_ack     == int_from_bytes(Take(data3, 2))
      data4         == Drop(data3, 2)
  IN
  IF Len(data4) = 0 THEN PopEmpty
  ELSE
  LET length     == Head(data4)
      data5      == Tail(data4)
      block_data == Take(data5, length)
      data6      == Drop(data5, length)
  IN
  IF Len(data6) # 0 THEN Err("AssertionError", "assert not data")
  ELSE Ok(GeneralBlockTransfer(last_block, streaming, window,
                               block_number, block_ack, block_data))

\* the two flag shifts exchanged
GBT_control_swapped(self) ==
  BitOr(BitOr(BoolInt(self.last_block) * 64, BoolInt(self.streaming) * 128),
        self.window)

\* self.last_block << 7 | self.streaming << 6 | self.window
GBT_control(self) ==
  BitOr(BitOr(BoolInt(self.last_block) * 128, BoolInt(self.streaming) * 64),
        self.window)

\* the length octet written modulo 256 instead of raising
GBT_length_unchecked(self) == TRUE

\* len(self.block_data).to_bytes(1, "big") does not raise
GBT_length_fits(self) == FitsBytes(Len(self.block_data), 1)

GeneralBlockTransfer_to_bytes(self) ==
  LET control == GBT_control(self)
  IN
  IF ~(control \in 0..255)
    THEN Err("ValueError", "bytes must be in range(0, 256)")
  ELSE IF ~FitsBytes(self.block_number, 2)
    THEN Err("OverflowError", "int too big to convert")
  ELSE IF ~FitsBytes(self.block_ack, 2)
    THEN Err("OverflowError", "int too big to convert")
  ELSE IF ~GBT_length_fits(self)
    THEN Err("OverflowError", "int too big to convert")
  ELSE Ok(<<224, control>>
          \o int_to_bytes(self.block_number, 2)
          \o int_to_bytes(self.block_ack, 2)
          \o int_to_bytes(Len(self.block_data), 1)
          \o self.block_data)

(***************************************************************************)
(* Collaborators of set.py that live in other modules of the package:      *)
(* the enumerations, the invoke-id-and-priority octet, the 9-octet COSEM   *)
(* attribute descriptor, the variable-length integer codec and the         *)
(* abstract APDU base class.                                               *)
(***************************************************************************)
\* Set-Request ::= CHOICE { [1] .. [5] }
SetRequestType == {1, 2, 3, 4, 5}

\* Set-Response ::= CHOICE { [1] .. [5] }
SetResponseType == {1, 2, 3, 4, 5}

\* Data-Access-Result ::= ENUMERATED
DataAccessResult == {0, 1, 2, 3, 4, 9, 11, 12, 13, 14, 15, 16, 17, 18, 19, 250}

\* Enum(value): a value outside the enumeration raises ValueError
EnumLookup(enum, name, v) ==
  IF v \in enum THEN Ok(v) ELSE Err("ValueError", "not a valid " \o name)

\* InvokeIdAndPriority: one octet, carried opaquely
InvokeIdAndPriority_from_bytes(bs) ==
  IF Len(bs) # 1 THEN Err("ValueError", "InvokeIdAndPriority length")
  ELSE Ok([octet |-> bs[1]])

InvokeIdAndPriority_to_bytes(self) == <<self.octet>>

\* cosem.CosemAttribute: a descriptor of exactly 9 octets, carried opaquely
CosemAttribute_from_bytes(bs) ==
  IF Len(bs) # 9 THEN Err("ValueError", "CosemAttribute length")
  ELSE Ok([octets |-> bs])

CosemAttribute_to_bytes(self) == self.octets

\* decode_variable_integer: BER-style length; returns (length, rest)
decode_variable_integer(bytes_input) ==
  IF Len(bytes_input) = 0 THEN Err("IndexError", "index out of range")
  ELSE IF BitTest(bytes_input[1], 128) # 0
    THEN LET length_length == bytes_input[1] % 128
         IN Ok([length |-> int_from_bytes(Take(Tail(bytes_input), length_length)),
                rest   |-> Drop(bytes_input, length_length + 1)])
    ELSE Ok([length |-> bytes_input[1] % 128, rest |-> Tail(bytes_input)])

RECURSIVE ByteLength(_)
\* the least number of octets (at least 1) that hold n
ByteLength(n) == IF n < 256 THEN 1 ELSE 1 + ByteLength(n \div 256)

\* encode_variable_integer
encode_variable_integer(length) ==
  IF length > 127
    THEN <<128 + ByteLength(length)>> \o int_to_bytes(length, ByteLength(length))
    ELSE <<length>>

\* AbstractXDlmsApdu.from_bytes, inherited by the variants declared with a
\* body of "...": the abstract method raises NotImplementedError
AbstractXDlmsApdu_from_bytes(source_bytes) ==
  Err("NotImplementedError", "abstract from_bytes")

(***************************************************************************)
(* Unsigned32 block numbers.  A Python int n >= 0 is held as two limbs,     *)
(* n = hi * 65536 + lo with lo in 0..65535, so that 2^32 - 1 and 2^32 are  *)
(* representable.                                                          *)
(***************************************************************************)
Wide(h, l) == [hi |-> h, lo |-> l]

\* int.from_bytes(s, "big") for a string of at most 4 octets
wide_from_bytes(s) ==
  IF Len(s) <= 2 THEN Wide(0, int_from_bytes(s))
  ELSE Wide(int_from_bytes(SubSeq(s, 1, Len(s) - 2)),
            int_from_bytes(SubSeq(s, Len(s) - 1, Len(s))))

\* n.to_bytes(4, "big") raises OverflowError unless n < 2^32
FitsWide4(n) == n.hi >= 0 /\ n.hi < 65536

wide_to_bytes4(n) == int_to_bytes(n.hi, 2) \o int_to_bytes(n.lo, 2)

(***************************************************************************)
(* Set-Request                                                             *)
(***************************************************************************)
SET_REQUEST_TAG == 193

SetRequestType_NORMAL == 1

SetRequestType_WITH_FIRST_BLOCK == 2

SetRequestType_WITH_BLOCK == 3

\* access_selection: None, or an object with its truth value (`if
\* self.access_selection:`) and the octets its to_bytes gives
AccessNone == [is_none |-> TRUE, truthy |-> FALSE, encoded |-> <<>>]

AccessSelection(t, bs) == [is_none |-> FALSE, truthy |-> t, encoded |-> bs]

SetRequestNormal(ca, d, as, iip) ==
  [cls |-> "SetRequestNormal",
   cosem_attribute |-> ca, data |-> d, access_selection |-> as,
   invoke_id_and_priority |-> iip]

SetRequestWithFirstBlock(ca, d, as, iip) ==
  [cls |-> "SetRequestWithFirstBlock",
   cosem_attribute |-> ca, data |-> d, access_selection |-> as,
   invoke_id_and_priority |-> iip]

\* the flag compared with 1 instead of tested for truth
has_access_selection_eq1(octet) == octet = 1

\* has_access_selection = bool(data.pop(0))
has_access_selection_of(octet) == Truthy(octet)

\* only the low 16 bits of the block number compared
block_number_is_first_low(block_number) == block_number.lo = 1

\* the test `block_number != 1` of SetRequestWithFirstBlock.from_bytes
block_number_is_first(block_number) == block_number = Wide(0, 1)

SetRequestNormal_from_bytes(source_bytes) ==
  IF Len(source_bytes) = 0 THEN PopEmpty
  ELSE
  LET tag   == Head(source_bytes)
      data1 == Tail(source_bytes)
  IN
  IF tag # SET_REQUEST_TAG THEN Err("ValueError", "Tag for SetRequest is not correct")
  ELSE IF Len(data1) = 0 THEN PopEmpty
  ELSE
  LET type_choice == EnumLookup(SetRequestType, "SetRequestType", Head(data1))
      data2       == Tail(data1)
  IN
  IF IsErr(type_choice) THEN type_choice
  ELSE IF type_choice.val # SetRequestType_NORMAL
    THEN Err("ValueError", "type is not for a SetRequestNormal")
  ELSE IF Len(data2) = 0 THEN PopEmpty
  ELSE
  LET invoke_id_and_priority == InvokeIdAndPriority_from_bytes(<<Head(data2)>>)
      data3                  == Tail(data2)
      cosem_attribute        == CosemAttribute_from_bytes(Take(data3, 9))
      data4                  == Drop(data3, 9)
  IN
  IF IsErr(invoke_id_and_priority) THEN invoke_id_and_priority
  ELSE IF IsErr(cosem_attribute) THEN cosem_attribute
  ELSE IF Len(data4) = 0 THEN PopEmpty
  ELSE
  LET has_access_selection == has_access_selection_of(Head(data4))
      data5                == Tail(data4)
  IN
  IF has_access_selection
    THEN Err("NotImplementedError", "Selective access on SET is not implemented")
  ELSE Ok(SetRequestNormal(cosem_attribute.val, data5, AccessNone,
                           invoke_id_and_priority.val))

\* the octets both Set-Request encoders emit before the variant's own fields
SetRequest_prefix(self, response_type) ==
  <<SET_REQUEST_TAG, response_type>>
  \o InvokeIdAndPriority_to_bytes(self.invoke_id_and_priority)
  \o CosemAttribute_to_bytes(self.cosem_attribute)
  \o (IF self.access_selection.truthy
        THEN <<1>> \o self.access_selection.encoded
        ELSE <<0>>)

SetRequestNormal_to_bytes(self) ==
  Ok(SetRequest_prefix(self, SetRequestType_NORMAL) \o self.data)

SetRequestWithFirstBlock_from_bytes(source_bytes) ==
  IF Len(source_bytes) = 0 THEN PopEmpty
  ELSE
  LET tag   == Head(source_bytes)
      data1 == Tail(source_bytes)
  IN
  IF tag # SET_REQUEST_TAG THEN Err("ValueError", "Tag for SetRequest is not correct")
  ELSE IF Len(data1) = 0 THEN PopEmpty
  ELSE
  LET type_choice == EnumLookup(SetRequestType, "SetRequestType", Head(data1))
      data2       == Tail(data1)
  IN
  IF IsErr(type_choice) THEN type_choice
  ELSE IF type_choice.val # SetRequestType_WITH_FIRST_BLOCK
    THEN Err("ValueError", "type is not for a SetRequestWithFirstBlock")
  ELSE IF Len(data2) = 0 THEN PopEmpty
  ELSE
  LET invoke_id_and_priority == InvokeIdAndPriority_from_bytes(<<Head(data2)>>)
      data3                  == Tail(data2)
      cosem_attribute        == CosemAttribute_from_bytes(Take(data3, 9))
      data4                  == Drop(data3, 9)
  IN
  IF IsErr(invoke_id_and_priority) THEN invoke_id_and_priority
  ELSE IF IsErr(cosem_attribute) THEN cosem_attribute
  ELSE IF Len(data4) = 0 THEN PopEmpty
  ELSE
  LET has_access_selection == has_access_selection_of(Head(data4))
      data5                == Tail(data4)
  IN
  IF has_access_selection
    THEN Err("NotImplementedError", "Selective access on SET is not implemented")
  ELSE IF Len(data5) = 0 THEN PopEmpty
  ELSE
  LET last_block   == Truthy(Head(data5))
      data6        == Tail(data5)
      block_number == wide_from_bytes(Take(data6, 4))
      data7        == Drop(data6, 4)
      decoded      == decode_variable_integer(data7)
  IN
  IF last_block
    THEN Err("ValueError", "Last block set to true in a SetRequestWithFirstBlock")
  ELSE IF ~block_number_is_first(block_number)
    THEN Err("ValueError", "block_number should be 1 in a SetRequestWithFirstBlock")
  ELSE IF IsErr(decoded) THEN decoded
  ELSE IF decoded.val.length # Len(decoded.val.rest)
    THEN Err("ValueError", "octet string in block data is not of the correct length")
  ELSE Ok(SetRequestWithFirstBlock(cosem_attribute.val, decoded.val.rest,
                                   AccessNone, invoke_id_and_priority.val))

SetRequestWithFirstBlock_to_bytes(self) ==
  Ok(SetRequest_prefix(self, SetRequestType_WITH_FIRST_BLOCK)
     \o <<0>>
     \o <<0, 0, 0, 1>>
     \o encode_variable_integer(Len(self.data))
     \o self.data)

\* the request type looked up before the tag is compared
SetRequestFactory_type_first(source_bytes) ==
  IF Len(source_bytes) < 2 THEN PopEmpty
  ELSE
  LET tag          == source_bytes[1]
      request_type == EnumLookup(SetRequestType, "SetRequestType", source_bytes[2])
  IN
  IF IsErr(request_type) THEN request_type
  ELSE IF tag # SET_REQUEST_TAG
    THEN Err("ValueError", "Tag for GET request is not correct")
  ELSE IF request_type.val = SetRequestType_NORMAL
    THEN SetRequestNormal_from_bytes(source_bytes)
  ELSE IF request_type.val = SetRequestType_WITH_FIRST_BLOCK
    THEN SetRequestWithFirstBlock_from_bytes(source_bytes)
  ELSE IF request_type.val = SetRequestType_WITH_BLOCK
    THEN AbstractXDlmsApdu_from_bytes(source_bytes)
  ELSE Err("NotImplementedError", "Unsupported set subtype")

\* the type octet compared as a bare number, without the enumeration lookup
SetRequestFactory_raw_type(source_bytes) ==
  IF Len(source_bytes) = 0 THEN PopEmpty
  ELSE IF Head(source_bytes) # SET_REQUEST_TAG
    THEN Err("ValueError", "Tag for GET request is not correct")
  ELSE IF Len(source_bytes) = 1 THEN PopEmpty
  ELSE IF source_bytes[2] = SetRequestType_NORMAL
    THEN SetRequestNormal_from_bytes(source_bytes)
  ELSE IF source_bytes[2] = SetRequestType_WITH_FIRST_BLOCK
    THEN SetRequestWithFirstBlock_from_bytes(source_bytes)
  ELSE IF source_bytes[2] = SetRequestType_WITH_BLOCK
    THEN AbstractXDlmsApdu_from_bytes(source_bytes)
  ELSE Err("NotImplementedError", "Unsupported set subtype")

\* the variant decoder handed what is left after the two pops, not the
\* original buffer
SetRequestFactory_passes_rest(source_bytes) ==
  IF Len(source_bytes) = 0 THEN PopEmpty
  ELSE
  LET tag   == Head(source_bytes)
      data1 == Tail(source_bytes)
  IN
  IF tag # SET_REQUEST_TAG THEN Err("ValueError", "Tag for GET request is not correct")
  ELSE IF Len(data1) = 0 THEN PopEmpty
  ELSE
  LET request_type == EnumLookup(SetRequestType, "SetRequestType", Head(data1))
      data2        == Tail(data1)
  IN
  IF IsErr(request_type) THEN request_type
  ELSE IF request_type.val = SetRequestType_NORMAL
    THEN SetRequestNormal_from_bytes(data2)
  ELSE IF request_type.val = SetRequestType_WITH_FIRST_BLOCK
    THEN SetRequestWithFirstBlock_from_bytes(data2)
  ELSE IF request_type.val = SetRequestType_WITH_BLOCK
    THEN AbstractXDlmsApdu_from_bytes(data2)
  ELSE Err("NotImplementedError", "Unsupported set subtype")

SetRequestFactory_from_bytes(source_bytes) ==
  IF Len(source_bytes) = 0 THEN PopEmpty
  ELSE
  LET tag   == Head(source_bytes)
      data1 == Tail(source_bytes)
  IN
  IF tag # SET_REQUEST_TAG THEN Err("ValueError", "Tag for GET request is not correct")
  ELSE IF Len(data1) = 0 THEN PopEmpty
  ELSE
  LET request_type == EnumLookup(SetRequestType, "SetRequestType", Head(data1))
  IN
  IF IsErr(request_type) THEN request_type
  ELSE IF request_type.val = SetRequestType_NORMAL
    THEN SetRequestNormal_from_bytes(source_bytes)
  ELSE IF request_type.val = SetRequestType_WITH_FIRST_BLOCK
    THEN SetRequestWithFirstBlock_from_bytes(source_bytes)
  ELSE IF request_type.val = SetRequestType_WITH_BLOCK
    THEN AbstractXDlmsApdu_from_bytes(source_bytes)
  ELSE Err("NotImplementedError", "Unsupported set subtype")

(***************************************************************************)
(* Set-Response                                                            *)
(***************************************************************************)
SET_RESPONSE_TAG == 197

SetResponseType_NORMAL == 1

SetResponseType_WITH_BLOCK == 2

SetResponseType_WITH_LAST_BLOCK == 3

SetResponseNormal(r, iip) ==
  [cls |-> "SetResponseNormal", result |-> r, invoke_id_and_priority |-> iip]

SetResponseWithBlock(iip, bn) ==
  [cls |-> "SetResponseWithBlock",
   invoke_id_and_priority |-> iip, block_number |-> bn]

SetResponseLastBlock(r, iip, bn) ==
  [cls |-> "SetResponseLastBlock",
   result |-> r, invoke_id_and_priority |-> iip, block_number |-> bn]

SetResponseNormal_from_bytes(source_bytes) ==
  IF Len(source_bytes) = 0 THEN PopEmpty
  ELSE
  LET tag   == Head(source_bytes)
      data1 == Tail(source_bytes)
  IN
  IF tag # SET_RESPONSE_TAG THEN Err("ValueError", "Tag for SetResponse is not correct")
  ELSE IF Len(data1) = 0 THEN PopEmpty
  ELSE
  LET type_choice == EnumLookup(SetResponseType, "SetResponseType", Head(data1))
      data2       == Tail(data1)
  IN
  IF IsErr(type_choice) THEN type_choice
  ELSE IF type_choice.val # SetResponseType_NORMAL
    THEN Err("ValueError", "type is not for a SetResponseNormal")
  ELSE IF Len(data2) = 0 THEN PopEmpty
  ELSE
  LET invoke_id_and_priority == InvokeIdAndPriority_from_bytes(<<Head(data2)>>)
      data3                  == Tail(data2)
  IN
  IF IsErr(invoke_id_and_priority) THEN invoke_id_and_priority
  ELSE IF Len(data3) = 0 THEN PopEmpty
  ELSE
  LET result == EnumLookup(DataAccessResult, "DataAccessResult", Head(data3))
  IN
  IF IsErr(result) THEN result
  ELSE Ok(SetResponseNormal(result.val, invoke_id_and_priority.val))

SetResponseNormal_to_bytes(self) ==
  Ok(<<SET_RESPONSE_TAG, SetResponseType_NORMAL>>
     \o InvokeIdAndPriority_to_bytes(self.invoke_id_and_priority)
     \o <<self.result>>)

SetResponseWithBlock_from_bytes(source_bytes) ==
  IF Len(source_bytes) = 0 THEN PopEmpty
  ELSE
  LET tag   == Head(source_bytes)
      data1 == Tail(source_bytes)
  IN
  IF tag # SET_RESPONSE_TAG THEN Err("ValueError", "Tag for SetResponse is not correct")
  ELSE IF Len(data1) = 0 THEN PopEmpty
  ELSE
  LET type_choice == EnumLookup(SetResponseType, "SetResponseType", Head(data1))
      data2       == Tail(data1)
  IN
  IF IsErr(type_choice) THEN type_choice
  ELSE IF type_choice.val # SetResponseType_WITH_BLOCK
    THEN Err("ValueError", "type is not for a SetResponseWithBlock")
  ELSE IF Len(data2) = 0 THEN PopEmpty
  ELSE
  LET invoke_id_and_priority == InvokeIdAndPriority_from_bytes(<<Head(data2)>>)
      data3                  == Tail(data2)
      block_number           == wide_from_bytes(Take(data3, 4))
  IN
  IF IsErr(invoke_id_and_priority) THEN invoke_id_and_priority
  ELSE Ok(SetResponseWithBlock(invoke_id_and_priority.val, block_number))

SetResponseWithBlock_to_bytes(self) ==
  IF ~FitsWide4(self.block_number)
    THEN Err("OverflowError", "int too big to convert")
  ELSE Ok(<<SET_RESPONSE_TAG, SetResponseType_WITH_BLOCK>>
          \o InvokeIdAndPriority_to_bytes(self.invoke_id_and_priority)
          \o wide_to_bytes4(self.block_number))

SetResponseLastBlock_from_bytes(source_bytes) ==
  IF Len(source_bytes) = 0 THEN PopEmpty
  ELSE
  LET tag   == Head(source_bytes)
      data1 == Tail(source_bytes)
  IN
  IF tag # SET_RESPONSE_TAG THEN Err("ValueError", "Tag for SetResponse is not correct")
  ELSE IF Len(data1) = 0 THEN PopEmpty
  ELSE
  LET type_choice == EnumLookup(SetResponseType, "SetResponseType", Head(data1))
      data2       == Tail(data1)
  IN
  IF IsErr(type_choice) THEN type_choice
  ELSE IF type_choice.val # SetResponseType_WITH_LAST_BLOCK
    THEN Err("ValueError", "type is not for a SetResponseLastBlock")
  ELSE IF Len(data2) = 0 THEN PopEmpty
  ELSE
  LET invoke_id_and_priority == InvokeIdAndPriority_from_bytes(<<Head(data2)>>)
      data3                  == Tail(data2)
  IN
  IF IsErr(invoke_id_and_priority) THEN invoke_id_and_priority
  ELSE IF Len(data3) = 0 THEN PopEmpty
  ELSE
  LET result       == EnumLookup(DataAccessResult, "DataAccessResult", Head(data3))
      data4        == Tail(data3)
      block_number == wide_from_bytes(Take(data4, 4))
  IN
  IF IsErr(result) THEN result
  ELSE Ok(SetResponseLastBlock(result.val, invoke_id_and_priority.val, block_number))

SetResponseLastBlock_to_bytes(self) ==
  IF ~FitsWide4(self.block_number)
    THEN Err("OverflowError", "int too big to convert")
  ELSE Ok(<<SET_RESPONSE_TAG, SetResponseType_WITH_LAST_BLOCK>>
          \o InvokeIdAndPriority_to_bytes(self.invoke_id_and_priority)
          \o <<self.result>>
          \o wide_to_bytes4(self.block_number))

\* every type that is not NORMAL or WITH_BLOCK sent to the last-block decoder
SetResponseFactory_else_last_block(source_bytes) ==
  IF Len(source_bytes) = 0 THEN PopEmpty
  ELSE
  LET tag   == Head(source_bytes)
      data1 == Tail(source_bytes)
  IN
  IF tag # SET_RESPONSE_TAG THEN Err("ValueError", "Tag for Set response is not correct")
  ELSE IF Len(data1) = 0 THEN PopEmpty
  ELSE
  LET request_type == EnumLookup(SetResponseType, "SetResponseType", Head(data1))
  IN
  IF IsErr(request_type) THEN request_type
  ELSE IF request_type.val = SetResponseType_NORMAL
    THEN SetResponseNormal_from_bytes(source_bytes)
  ELSE IF request_type.val = SetResponseType_WITH_BLOCK
    THEN SetResponseWithBlock_from_bytes(source_bytes)
  ELSE SetResponseLastBlock_from_bytes(source_bytes)

SetResponseFactory_from_bytes(source_bytes) ==
  IF Len(source_bytes) = 0 THEN PopEmpty
  ELSE
  LET tag   == Head(source_bytes)
      data1 == Tail(source_bytes)
  IN
  IF tag # SET_RESPONSE_TAG THEN Err("ValueError", "Tag for Set response is not correct")
  ELSE IF Len(data1) = 0 THEN PopEmpty
  ELSE
  LET request_type == EnumLookup(SetResponseType, "SetResponseType", Head(data1))
  IN
  IF IsErr(request_type) THEN request_type
  ELSE IF request_type.val = SetResponseType_NORMAL
    THEN SetResponseNormal_from_bytes(source_bytes)
  ELSE IF request_type.val = SetResponseType_WITH_BLOCK
    THEN SetResponseWithBlock_from_bytes(source_bytes)
  ELSE IF request_type.val = SetResponseType_WITH_LAST_BLOCK
    THEN SetResponseLastBlock_from_bytes(source_bytes)
  ELSE Err("NotImplementedError", "not implemented")

(***************************************************************************)
(* Method dispatch: cls.from_bytes(b) and x.to_bytes().                    *)
(***************************************************************************)
FromBytes(cls, b) ==
  CASE cls = "GeneralBlockTransfer"     -> GeneralBlockTransfer_from_bytes(b)
    [] cls = "SetRequestNormal"         -> SetRequestNormal_from_bytes(b)
    [] cls = "SetRequestWithFirstBlock" -> SetRequestWithFirstBlock_from_bytes(b)
    [] cls = "SetRequestFactory"        -> SetRequestFactory_from_bytes(b)
    [] cls = "SetResponseNormal"        -> SetResponseNormal_from_bytes(b)
    [] cls = "SetResponseWithBlock"     -> SetResponseWithBlock_from_bytes(b)
    [] cls = "SetResponseLastBlock"     -> SetResponseLastBlock_from_bytes(b)
    [] cls = "SetResponseFactory"       -> SetResponseFactory_from_bytes(b)

ToBytes(x) ==
  CASE x.cls = "GeneralBlockTransfer"     -> GeneralBlockTransfer_to_bytes(x)
    [] x.cls = "SetRequestNormal"         -> SetRequestNormal_to_bytes(x)
    [] x.cls = "SetRequestWithFirstBlock" -> SetRequestWithFirstBlock_to_bytes(x)
    [] x.cls = "SetResponseNormal"        -> SetResponseNormal_to_bytes(x)
    [] x.cls = "SetResponseWithBlock"     -> SetResponseWithBlock_to_bytes(x)
    [] x.cls = "SetResponseLastBlock"     -> SetResponseLastBlock_to_bytes(x)

(***************************************************************************)
(* The explored inputs.                                                    *)
(***************************************************************************)
\* payload octets: 0, 1 and "a"
DataBytes == {0, 1, 97}

ShortBlobs == UNION {[1..n -> DataBytes] : n \in 0..MaxShortLen}

\* payload lengths around the 1-octet limits: 0x7F/0x80 of the variable-length
\* integer and 0xFF/0x100 of the General-Block-Transfer length octet
LongLens == {127, 128, 255, 256}

LongBlobs == {Fill(n, 97) : n \in LongLens}

Blobs == ShortBlobs \cup LongBlobs

\* test_generate_gbt: the parsed value and its pdu
TestGbtParsed == GeneralBlockTransfer(TRUE, FALSE, 3, 4, 5, <<97, 98, 99>>)

TestGbtPdu == <<224, 131, 0, 4, 0, 5, 3, 97, 98, 99>>

GbtValues ==
  {GeneralBlockTransfer(lb, st, w, bn, ba, bd) :
     lb \in BOOLEAN, st \in BOOLEAN, w \in {0, 3, 63, 64, 256},
     bn \in {0, 4, 65535, 65536}, ba \in {5, 65535, 65536}, bd \in Blobs}
  \cup {TestGbtParsed}

GbtBuffers ==
  UNION {Prefixes(<<tag, control>> \o bn \o <<0, 5>> \o <<length>> \o bd) :
           tag \in {224, 193, 1}, control \in {0, 64, 131, 255},
           bn \in {<<0, 4>>, <<255, 255>>}, length \in {0, 1, 2, 3, 255},
           bd \in ShortBlobs}
  \cup {TestGbtPdu}

InvokeOctets == {0, 193}

Descriptors == {<<0, 1, 1, 0, 0, 1, 0, 255, 2>>, <<0, 8, 0, 0, 1, 0, 0, 255, 2>>}

InvokeValues == {[octet |-> o] : o \in InvokeOctets}

DescriptorValues == {[octets |-> d] : d \in Descriptors}

\* None, a descriptor object, the int 0, and an object of length 0
AccessValues ==
  {AccessNone, AccessSelection(TRUE, <<1, 2>>), AccessSelection(FALSE, <<0>>),
   AccessSelection(FALSE, <<1, 2>>)}

SetRequestNormalValues ==
  {SetRequestNormal(ca, d, as, iip) :
     ca \in DescriptorValues, d \in Blobs, as \in AccessValues, iip \in InvokeValues}

SetRequestWithFirstBlockValues ==
  {SetRequestWithFirstBlock(ca, d, as, iip) :
     ca \in DescriptorValues, d \in Blobs, as \in AccessValues, iip \in InvokeValues}

\* what may follow the access-selection octet of a Set-Request
DataBlocks ==
  {<<lb>> \o bn \o lp \o bd :
     lb \in {0, 1, 2}, bn \in {<<0, 0, 0, 1>>, <<0, 0, 0, 2>>, <<1, 0, 0, 1>>},
     lp \in {<<0>>, <<1>>, <<2>>, <<129, 128>>, <<130, 1, 0>>}, bd \in Blobs}

SetRequestBodies == ShortBlobs \cup DataBlocks

\* a few tails, from nothing to a whole first-datablock body
SetRequestRests ==
  {<<>>, <<0>>,
   <<0>> \o <<0, 1, 1, 0, 0, 1, 0, 255, 2>> \o <<0>> \o <<97>>,
   <<0>> \o <<0, 1, 1, 0, 0, 1, 0, 255, 2>> \o <<1>> \o <<97>>,
   <<0>> \o <<0, 1, 1, 0, 0, 1, 0, 255, 2>> \o <<0>> \o <<0, 0, 0, 0, 1, 1, 97>>,
   <<0>> \o <<0, 1, 1, 0, 0, 1, 0, 255, 2>> \o <<0>> \o <<0, 0, 0, 0, 2, 1, 97>>}

TagOctets == {224, 193, 197, 1}

TypeOctets == {0, 1, 2, 3, 4, 5, 6, 255}

SetRequestBuffers ==
  {<<193, type, iip>> \o d \o <<acc>> \o body :
     type \in {1, 2}, iip \in InvokeOctets, d \in Descriptors,
     acc \in {0, 1, 255}, body \in SetRequestBodies}
  \cup {<<tag, type>> \o rest :
          tag \in TagOctets, type \in TypeOctets, rest \in SetRequestRests}
  \cup UNION {Prefixes(<<193, type, 0>> \o <<0, 1, 1, 0, 0, 1, 0, 255, 2>> \o <<0>>
                       \o <<0, 0, 0, 0, 1, 1, 97>>) : type \in {1, 2}}
  \cup {<<tag>> : tag \in TagOctets}

SetResponseBuffers ==
  UNION {Prefixes(<<197, type, iip, r>> \o bn \o extra) :
           type \in {1, 2, 3}, iip \in InvokeOctets, r \in {0, 1, 5, 250},
           bn \in {<<0, 0, 1>>, <<0, 0, 0, 1>>, <<255, 255, 255, 255>>},
           extra \in {<<>>, <<0>>, <<7, 7>>}}
  \cup {<<tag, type>> \o rest :
          tag \in TagOctets, type \in TypeOctets,
          rest \in {<<>>, <<0>>, <<0, 0>>, <<0, 0, 0, 0, 0, 1>>, <<0, 5, 0, 0, 0, 1>>}}
  \cup {<<tag>> : tag \in TagOctets}

BlockNumbers == {Wide(0, 0), Wide(0, 1), Wide(1, 0), Wide(65535, 65535), Wide(65536, 0)}

SetResponseNormalValues ==
  {SetResponseNormal(r, iip) : r \in {0, 3, 250}, iip \in InvokeValues}

SetResponseWithBlockValues ==
  {SetResponseWithBlock(iip, bn) : iip \in InvokeValues, bn \in BlockNumbers}

SetResponseLastBlockValues ==
  {SetResponseLastBlock(r, iip, bn) :
     r \in {0, 3, 250}, iip \in InvokeValues, bn \in BlockNumbers}

(***************************************************************************)
(* The state machine: a caller applies one codec operation to an input,    *)
(* and may then feed a successful result to the inverse operation.         *)
(*   op   the operation last applied: its class and function               *)
(*   arg  its input                                                        *)
(*   out  its outcome                                                      *)
(*   orig <<x>> when arg is the result of the inverse operation on x,      *)
(*        << >> otherwise                                                  *)
(***************************************************************************)
Init ==
  /\ op = [cls |-> "none", fn |-> "none"]
  /\ arg = <<>>
  /\ out = [kind |-> "none"]
  /\ orig = <<>>

\* no call made yet
Idle == op.fn = "none"

Decode(cls, b) ==
  /\ op' = [cls |-> cls, fn |-> "from_bytes"]
  /\ arg' = b
  /\ out' = FromBytes(cls, b)
  /\ orig' = <<>>

Encode(x) ==
  /\ op' = [cls |-> x.cls, fn |-> "to_bytes"]
  /\ arg' = x
  /\ out' = ToBytes(x)
  /\ orig' = <<>>

GeneralBlockTransferDecode ==
  /\ Idle
  /\ \E b \in GbtBuffers : Decode("GeneralBlockTransfer", b)

GeneralBlockTransferEncode ==
  /\ Idle
  /\ \E x \in GbtValues : Encode(x)

SetRequestNormalDecode ==
  /\ Idle
  /\ \E b \in SetRequestBuffers : Decode("SetRequestNormal", b)

SetRequestNormalEncode ==
  /\ Idle
  /\ \E x \in SetRequestNormalValues : Encode(x)

SetRequestWithFirstBlockDecode ==
  /\ Idle
  /\ \E b \in SetRequestBuffers : Decode("SetRequestWithFirstBlock", b)

SetRequestWithFirstBlockEncode ==
  /\ Idle
  /\ \E x \in SetRequestWithFirstBlockValues : Encode(x)

SetRequestFactoryDecode ==
  /\ Idle
  /\ \E b \in SetRequestBuffers : Decode("SetRequestFactory", b)

SetResponseNormalDecode ==
  /\ Idle
  /\ \E b \in SetResponseBuffers : Decode("SetResponseNormal", b)

SetResponseNormalEncode ==
  /\ Idle
  /\ \E x \in SetResponseNormalValues : Encode(x)

SetResponseWithBlockDecode ==
  /\ Idle
  /\ \E b \in SetResponseBuffers : Decode("SetResponseWithBlock", b)

SetResponseWithBlockEncode ==
  /\ Idle
  /\ \E x \in SetResponseWithBlockValues : Encode(x)

SetResponseLastBlockDecode ==
  /\ Idle
  /\ \E b \in SetResponseBuffers : Decode("SetResponseLastBlock", b)

SetResponseLastBlockEncode ==
  /\ Idle
  /\ \E x \in SetResponseLastBlockValues : Encode(x)

SetResponseFactoryDecode ==
  /\ Idle
  /\ \E b \in SetResponseBuffers : Decode("SetResponseFactory", b)

\* from_bytes(x.to_bytes()) with the class of x
DecodeEncoded ==
  /\ op.fn = "to_bytes"
  /\ IsOk(out)
  /\ orig = <<>>
  /\ op' = [cls |-> op.cls, fn |-> "from_bytes"]
  /\ arg' = out.val
  /\ out' = FromBytes(op.cls, out.val)
  /\ orig' = <<arg>>

\* from_bytes(b).to_bytes()
EncodeDecoded ==
  /\ op.fn = "from_bytes"
  /\ IsOk(out)
  /\ orig = <<>>
  /\ op' = [cls |-> out.val.cls, fn |-> "to_bytes"]
  /\ arg' = out.val
  /\ out' = ToBytes(out.val)
  /\ orig' = <<arg>>

Next ==
  \/ GeneralBlockTransferDecode
  \/ GeneralBlockTransferEncode
  \/ SetRequestNormalDecode
  \/ SetRequestNormalEncode
  \/ SetRequestWithFirstBlockDecode
  \/ SetRequestWithFirstBlockEncode
  \/ SetRequestFactoryDecode
  \/ SetResponseNormalDecode
  \/ SetResponseNormalEncode
  \/ SetResponseWithBlockDecode
  \/ SetResponseWithBlockEncode
  \/ SetResponseLastBlockDecode
  \/ SetResponseLastBlockEncode
  \/ SetResponseFactoryDecode
  \/ DecodeEncoded
  \/ EncodeDecoded

Spec == Init /\ [][Next]_vars

(***************************************************************************)
(* Vocabulary of the properties.                                           *)
(***************************************************************************)
\* the last call was cls.fn
Called(cls, fn) == op.cls = cls /\ op.fn = fn

\* the last call was made on a caller-supplied input
Direct == orig = <<>>

\* the last call was made on the result of the inverse operation
Chained == orig # <<>>

\* the ranges a value must keep to be a valid value of its class
ValidValue(x) ==
  CASE x.cls = "GeneralBlockTransfer" ->
         /\ x.window \in 0..63
         /\ x.block_number \in 0..65535
         /\ x.block_ack \in 0..65535
         /\ Len(x.block_data) <= 255
    [] x.cls \in {"SetRequestNormal", "SetRequestWithFirstBlock"} ->
         x.access_selection.is_none
    [] x.cls = "SetResponseNormal" -> TRUE
    [] x.cls \in {"SetResponseWithBlock", "SetResponseLastBlock"} ->
         /\ x.block_number.hi \in 0..65535
         /\ x.block_number.lo \in 0..65535

(***************************************************************************)
(* C1  Round-trip.  For every valid value x of an implemented variant,     *)
(* x.to_bytes() succeeds, and from_bytes of those bytes succeeds and gives *)
(* a value equal to x in its class and in every field.                     *)
(***************************************************************************)
C1_RoundTrip ==
  /\ (op.fn = "to_bytes" /\ Direct /\ ValidValue(arg)) => IsOk(out)
  /\ (op.fn = "from_bytes" /\ Chained /\ ValidValue(orig[1]))
       => (IsOk(out) /\ out.val = orig[1])

\* a General-Block-Transfer with every field at its upper limit came back
C1_Witness ==
  /\ Called("GeneralBlockTransfer", "from_bytes")
  /\ Chained
  /\ orig[1].window = 63
  /\ orig[1].block_number = 65535
  /\ Len(orig[1].block_data) = 255
  /\ IsOk(out)

(***************************************************************************)
(* C2  Layout of General-Block-Transfer.  to_bytes of a value within the   *)
(* field ranges emits tag 224, a control octet with last_block in bit 7,   *)
(* streaming in bit 6 and window in bits 0-5, block_number and block_ack   *)
(* as 2 big-endian octets each, one octet holding len(block_data), and     *)
(* block_data; from_bytes reads the fields of every buffer it accepts from *)
(* the same positions; and the value of test_generate_gbt encodes to       *)
(* E0 83 00 04 00 05 03 61 62 63, which decodes to that value.             *)
(***************************************************************************)
C2_GbtLayout ==
  /\ (Called("GeneralBlockTransfer", "to_bytes") /\ ValidValue(arg)) =>
       /\ IsOk(out)
       /\ Len(out.val) = 7 + Len(arg.block_data)
       /\ out.val[1] = 224
       /\ out.val[2] \div 128 = BoolInt(arg.last_block)
       /\ (out.val[2] \div 64) % 2 = BoolInt(arg.streaming)
       /\ out.val[2] % 64 = arg.window
       /\ 256 * out.val[3] + out.val[4] = arg.block_number
       /\ 256 * out.val[5] + out.val[6] = arg.block_ack
       /\ out.val[7] = Len(arg.block_data)
       /\ SubSeq(out.val, 8, Len(out.val)) = arg.block_data
  /\ (Called("GeneralBlockTransfer", "from_bytes") /\ IsOk(out)) =>
       /\ Len(arg) >= 7
       /\ arg[1] = 224
       /\ out.val.last_block = (arg[2] \div 128 = 1)
       /\ out.val.streaming = ((arg[2] \div 64) % 2 = 1)
       /\ out.val.window = arg[2] % 64
       /\ out.val.block_number = 256 * arg[3] + arg[4]
       /\ out.val.block_ack = 256 * arg[5] + arg[6]
       /\ out.val.block_data = SubSeq(arg, 8, Len(arg))
  /\ (Called("GeneralBlockTransfer", "to_bytes") /\ arg = TestGbtParsed)
       => (IsOk(out) /\ out.val = TestGbtPdu)
  /\ (Called("GeneralBlockTransfer", "from_bytes") /\ arg = TestGbtPdu)
       => (IsOk(out) /\ out.val = TestGbtParsed)

\* the literal value was encoded to the literal pdu and decoded back
C2_Witness ==
  /\ Called("GeneralBlockTransfer", "from_bytes")
  /\ Chained
  /\ orig[1] = TestGbtParsed
  /\ arg = TestGbtPdu
  /\ IsOk(out)

(***************************************************************************)
(* C10  General-Block-Transfer.to_bytes raises, and emits nothing, for     *)
(* every value whose block_data is longer than 255 octets; and whenever it *)
(* emits a buffer, the length octet equals the number of octets after it.  *)
(***************************************************************************)
C10_GbtLengthLimit ==
  /\ (Called("GeneralBlockTransfer", "to_bytes") /\ Len(arg.block_data) > 255)
       => IsErr(out)
  /\ (Called("GeneralBlockTransfer", "to_bytes") /\ IsOk(out))
       => (Len(out.val) >= 7 /\ out.val[7] = Len(out.val) - 7)

\* a value valid but for its 256 octets of block_data was refused
C10_Witness ==
  /\ Called("GeneralBlockTransfer", "to_bytes")
  /\ Direct
  /\ Len(arg.block_data) = 256
  /\ arg.window \in 0..63
  /\ arg.block_number \in 0..65535
  /\ arg.block_ack \in 0..65535
  /\ Raises(out, "OverflowError", "int too big to convert")

(***************************************************************************)
(* Families, and the kinds of failure the properties speak of.             *)
(***************************************************************************)
SetRequestDecoders ==
  {"SetRequestNormal", "SetRequestWithFirstBlock", "SetRequestFactory"}

SetResponseDecoders ==
  {"SetResponseNormal", "SetResponseWithBlock", "SetResponseLastBlock",
   "SetResponseFactory"}

\* the fixed first octet of the family a decoder belongs to
FamilyTag(cls) ==
  IF cls = "GeneralBlockTransfer" THEN 224
  ELSE IF cls \in SetRequestDecoders THEN 193
  ELSE 197

\* the type-choice a variant decoder accepts
OwnType(cls) ==
  CASE cls \in {"SetRequestNormal", "SetResponseNormal"}            -> 1
    [] cls \in {"SetRequestWithFirstBlock", "SetResponseWithBlock"} -> 2
    [] cls = "SetResponseLastBlock"                                 -> 3

TagMessages ==
  {"Tag is not correct", "Tag for SetRequest is not correct",
   "Tag for GET request is not correct", "Tag for SetResponse is not correct",
   "Tag for Set response is not correct"}

TagMismatch(o) == IsErr(o) /\ o.exc = "ValueError" /\ o.why \in TagMessages

NotImplemented(o) == IsErr(o) /\ o.exc = "NotImplementedError"

UnknownVariant(o) ==
  /\ IsErr(o)
  /\ o.exc = "ValueError"
  /\ o.why \in {"not a valid SetRequestType", "not a valid SetResponseType"}

SameOutcome(a, b) ==
  /\ a.kind = b.kind
  /\ IsOk(a) => a.val = b.val
  /\ IsErr(a) => (a.exc = b.exc /\ a.why = b.why)

\* a caller-supplied buffer was decoded
Decoded == op.fn = "from_bytes" /\ Direct

(***************************************************************************)
(* C3  Length agreement (the claim as stated).  General-Block-Transfer and *)
(* SetRequestWithFirstBlock from_bytes return a value only when the        *)
(* declared length equals the number of data octets that follow it.        *)
(***************************************************************************)
C3_LengthAgreement ==
  /\ (Decoded /\ op.cls = "GeneralBlockTransfer" /\ IsOk(out))
       => (Len(arg) >= 7 /\ arg[7] = Len(arg) - 7)
  /\ (Decoded /\ op.cls = "SetRequestWithFirstBlock" /\ IsOk(out))
       => /\ Len(arg) >= 19
          /\ IF arg[19] < 128
               THEN arg[19] = Len(arg) - 19
               ELSE /\ Len(arg) >= 19 + (arg[19] - 128)
                    /\ int_from_bytes(SubSeq(arg, 20, 19 + (arg[19] - 128)))
                         = Len(arg) - (19 + (arg[19] - 128))

(***************************************************************************)
(* C4  Tag rejection.  Every decoder, given a non-empty buffer whose first *)
(* octet is not its family's tag, raises the tag-mismatch ValueError,      *)
(* whatever the other octets are.                                          *)
(***************************************************************************)
C4_TagRejection ==
  (Decoded /\ Len(arg) >= 1 /\ arg[1] # FamilyTag(op.cls)) => TagMismatch(out)

\* the Set-Request dispatcher refused a wrong tag followed by a type-choice
\* that no variant has
C4_Witness ==
  /\ Decoded
  /\ op.cls = "SetRequestFactory"
  /\ Len(arg) > 2
  /\ arg[1] = 1
  /\ arg[2] = 6
  /\ TagMismatch(out)

(***************************************************************************)
(* C5  Unimplemented variant.  SetRequestFactory.from_bytes on tag 193     *)
(* with type-choice 3, 4 or 5, and SetResponseFactory.from_bytes on tag    *)
(* 197 with type-choice 4 or 5, raise NotImplementedError: no value, and   *)
(* not the error of an unknown variant.                                    *)
(***************************************************************************)
C5_UnimplementedVariant ==
  /\ (Decoded /\ op.cls = "SetRequestFactory" /\ Len(arg) >= 2
        /\ arg[1] = 193 /\ arg[2] \in {3, 4, 5})
       => (NotImplemented(out) /\ ~UnknownVariant(out))
  /\ (Decoded /\ op.cls = "SetResponseFactory" /\ Len(arg) >= 2
        /\ arg[1] = 197 /\ arg[2] \in {4, 5})
       => (NotImplemented(out) /\ ~UnknownVariant(out))

\* the Set-Response dispatcher refused a with-list response that has a body
C5_Witness ==
  /\ Decoded
  /\ op.cls = "SetResponseFactory"
  /\ Len(arg) > 2
  /\ arg[1] = 197
  /\ arg[2] = 4
  /\ NotImplemented(out)

(***************************************************************************)
(* C6  Unknown variant.  A buffer with the family's tag and a type-choice  *)
(* octet outside 1..5 makes the dispatcher and every variant decoder of    *)
(* the family raise the enumeration's ValueError, whatever follows; that   *)
(* error is neither the tag-mismatch error (same exception class, another  *)
(* message) nor NotImplementedError.                                       *)
(***************************************************************************)
C6_UnknownVariant ==
  (Decoded /\ op.cls \in SetRequestDecoders \cup SetResponseDecoders
     /\ Len(arg) >= 2 /\ arg[1] = FamilyTag(op.cls) /\ ~(arg[2] \in 1..5))
    => (UnknownVariant(out) /\ ~TagMismatch(out) /\ ~NotImplemented(out))

\* the Set-Request dispatcher refused type-choice 6 with octets after it
C6_Witness ==
  /\ Decoded
  /\ op.cls = "SetRequestFactory"
  /\ Len(arg) > 2
  /\ arg[1] = 193
  /\ arg[2] = 6
  /\ UnknownVariant(out)

(***************************************************************************)
(* C7  WithFirstBlock invariant.  SetRequestWithFirstBlock.from_bytes on a *)
(* buffer with tag 193, type-choice 2, no access selection and all of the  *)
(* datablock header raises the field ValueError when the last_block octet  *)
(* is not 0 or the 4 block_number octets are not 00 00 00 01; every value  *)
(* it returns came from last_block = 0 and block_number = 1; and to_bytes  *)
(* always emits last_block = 0 and block_number = 00 00 00 01 after the    *)
(* access selection.                                                       *)
(***************************************************************************)
C7_FirstBlockInvariant ==
  /\ (Decoded /\ op.cls = "SetRequestWithFirstBlock" /\ Len(arg) >= 18
        /\ arg[1] = 193 /\ arg[2] = 2 /\ arg[13] = 0)
       => /\ arg[14] # 0 =>
               Raises(out, "ValueError",
                      "Last block set to true in a SetRequestWithFirstBlock")
          /\ (arg[14] = 0 /\ SubSeq(arg, 15, 18) # <<0, 0, 0, 1>>) =>
               Raises(out, "ValueError",
                      "block_number should be 1 in a SetRequestWithFirstBlock")
  /\ (Decoded /\ op.cls \in {"SetRequestWithFirstBlock", "SetRequestFactory"}
        /\ IsOk(out) /\ out.val.cls = "SetRequestWithFirstBlock")
       => (Len(arg) >= 18 /\ arg[14] = 0 /\ SubSeq(arg, 15, 18) = <<0, 0, 0, 1>>)
  /\ (Called("SetRequestWithFirstBlock", "to_bytes") /\ Direct)
       => /\ IsOk(out)
          /\ LET k == IF arg.access_selection.truthy
                        THEN Len(arg.access_selection.encoded) ELSE 0
             IN /\ Len(out.val) >= 18 + k
                /\ out.val[14 + k] = 0
                /\ SubSeq(out.val, 15 + k, 18 + k) = <<0, 0, 0, 1>>

\* a first datablock whose only fault is a block number of 0x01000001
C7_Witness ==
  /\ Decoded
  /\ op.cls = "SetRequestWithFirstBlock"
  /\ Len(arg) = 20
  /\ arg[13] = 0
  /\ arg[14] = 0
  /\ SubSeq(arg, 15, 18) = <<1, 0, 0, 1>>
  /\ arg[19] = 1
  /\ Raises(out, "ValueError",
            "block_number should be 1 in a SetRequestWithFirstBlock")

(***************************************************************************)
(* C8  Dispatcher equivalence.  On every buffer with tag 193 and           *)
(* type-choice 1, SetRequestFactory.from_bytes has the outcome of          *)
(* SetRequestNormal.from_bytes, and to_bytes of a decoded SetRequestNormal *)
(* gives back the buffer it was decoded from; the dispatchers likewise     *)
(* have the outcome of the selected variant's decoder for type-choice 2 of *)
(* a Set-Request and 1, 2, 3 of a Set-Response.                            *)
(***************************************************************************)
C8_DispatcherEquivalence ==
  /\ (Decoded /\ op.cls = "SetRequestFactory" /\ Len(arg) >= 2 /\ arg[1] = 193)
       => /\ arg[2] = 1 => SameOutcome(out, SetRequestNormal_from_bytes(arg))
          /\ arg[2] = 2 => SameOutcome(out, SetRequestWithFirstBlock_from_bytes(arg))
  /\ (Decoded /\ op.cls = "SetResponseFactory" /\ Len(arg) >= 2 /\ arg[1] = 197)
       => /\ arg[2] = 1 => SameOutcome(out, SetResponseNormal_from_bytes(arg))
          /\ arg[2] = 2 => SameOutcome(out, SetResponseWithBlock_from_bytes(arg))
          /\ arg[2] = 3 => SameOutcome(out, SetResponseLastBlock_from_bytes(arg))
  /\ (Called("SetRequestNormal", "to_bytes") /\ Chained)
       => (IsOk(out) /\ out.val = orig[1])

\* the dispatcher decoded a Set-Request-Normal that carries data
C8_Witness ==
  /\ Decoded
  /\ op.cls = "SetRequestFactory"
  /\ Len(arg) > 13
  /\ arg[1] = 193
  /\ arg[2] = 1
  /\ IsOk(out)
  /\ out.val.cls = "SetRequestNormal"
  /\ Len(out.val.data) > 0

(***************************************************************************)
(* C9  Selective access.  SetRequestNormal and SetRequestWithFirstBlock    *)
(* from_bytes, on a buffer with tag 193, their own type-choice and a       *)
(* non-zero access-selection octet after the 9-octet descriptor, raise     *)
(* NotImplementedError whatever follows; every decoded Set-Request has     *)
(* access_selection None and was decoded from an access octet of 0.        *)
(***************************************************************************)
C9_SelectiveAccess ==
  /\ (Decoded /\ op.cls \in {"SetRequestNormal", "SetRequestWithFirstBlock"}
        /\ Len(arg) >= 13 /\ arg[1] = 193 /\ arg[2] = OwnType(op.cls)
        /\ arg[13] # 0)
       => Raises(out, "NotImplementedError",
                 "Selective access on SET is not implemented")
  /\ (Decoded /\ op.cls \in SetRequestDecoders /\ IsOk(out))
       => /\ out.val.access_selection = AccessNone
          /\ Len(arg) >= 13
          /\ arg[13] = 0

\* an access octet of 0xFF with octets after it was refused
C9_Witness ==
  /\ Decoded
  /\ op.cls = "SetRequestNormal"
  /\ Len(arg) > 13
  /\ arg[13] = 255
  /\ Raises(out, "NotImplementedError",
            "Selective access on SET is not implemented")

\* the number of octets of a Set-Response variant's layout
LayoutLength(cls) ==
  CASE cls = "SetResponseNormal"    -> 4
    [] cls = "SetResponseWithBlock" -> 7
    [] cls = "SetResponseLastBlock" -> 8

SetResponseVariants ==
  {"SetResponseNormal", "SetResponseWithBlock", "SetResponseLastBlock"}

(***************************************************************************)
(* C11  All-or-nothing decode of Set-Responses (the claim as stated).      *)
(* SetResponseNormal, SetResponseWithBlock and SetResponseLastBlock        *)
(* from_bytes return a value only for a buffer of exactly the layout       *)
(* length of the variant (4, 7 and 8 octets), and to_bytes of a value they *)
(* decoded gives back the buffer it was decoded from.                      *)
(***************************************************************************)
C11_AllOrNothing ==
  /\ (Decoded /\ op.cls \in SetResponseVariants /\ IsOk(out))
       => Len(arg) = LayoutLength(op.cls)
  /\ (op.fn = "to_bytes" /\ Chained /\ op.cls \in SetResponseVariants)
       => (IsOk(out) /\ out.val = orig[1])

====
